---- MODULE Spec2Model ----
(***************************************************************************)
(* A model of pladder's snusk database (src/pladder/snusk.py): the two     *)
(* SQLite tables nouns and inbetweenies behind SnuskDb, the operations     *)
(* that insert, look up and score fragments, the random draw of five parts *)
(* and the composers built on it.                                          *)
(*                                                                         *)
(* A table is the sequence of its rows in rowid order; a row is a record.  *)
(* Every public method is one action.  The value a call hands back (or the *)
(* exception it ends in) is kept in `last`, together with the method and   *)
(* its arguments.                                                          *)
(***************************************************************************)
EXTENDS Integers, Sequences, FiniteSets, TLC

(* Words with scores lower than or equal to this are not drawn (line 7). *)
SKIP_SCORE == -3

(***************************************************************************)
(* The inputs the callers pass, and the bound of the exploration.          *)
(***************************************************************************)
NounInputs == {<<"frukt", "frukten">>, <<"don", "donet">>, <<"don", "frukten">>,
               <<"frukten", "don">>}
InbetweenyWords == {"i", "med"}
FindWords == {"frukten", "don", "donet"}
Deltas == {-3, 1}
Targets == {"raek"}
ExampleArgs == {<<"don", "donet">>}
ExampleInbetweenies == {"som"}

(* At most this many calls that change a table are explored in one run. *)
MaxOps == 2

(* The concurrent callers: each has its own connection to the database file. *)
NumCallers == 2
Callers == 1..NumCallers
(* The fragments they adjust: a stored and a missing one of each kind. *)
ConcurrentNouns == {<<"frukt", "frukten">>, <<"don", "donet">>}
ConcurrentInbetweenies == {"i", "med"}

VARIABLES
    cteMaterialized,   \* the SQLite build computes a CTE used twice only once
    nouns,             \* table nouns: rows [prefix, suffix, score]
    inbetweenies,      \* table inbetweenies: rows [inbetweeny, score]
    last,              \* the last call: [op, args, ret]
    nOps,              \* number of calls so far that changed a table
    nounDeltas,        \* history: pair -> sum of the deltas sent to the stored pair
    inbetweenyDeltas,  \* history: word -> sum of the deltas sent to the stored word
    writer,            \* the connection holding the database's write lock, or 0
    pc,                \* per caller: "idle", "updated", "selected"
    call,              \* per caller: the method and arguments of its call
    fetched,           \* per caller: the row its SELECT fetched
    returned,          \* per caller: what its call handed back
    afterUpdate        \* history, per caller: the score right after its UPDATE

storeVars == <<nouns, inbetweenies>>
histVars == <<nounDeltas, inbetweenyDeltas>>
concVars == <<writer, pc, call, fetched, returned, afterUpdate>>
vars == <<cteMaterialized, nouns, inbetweenies, last, nOps, nounDeltas,
          inbetweenyDeltas, writer, pc, call, fetched, returned, afterUpdate>>

(***************************************************************************)
(* What a call hands back.                                                 *)
(***************************************************************************)
RetBool(b) == [kind |-> "bool", val |-> <<b>>]
RetInt(n) == [kind |-> "int", val |-> <<n>>]
RetNone == [kind |-> "none", val |-> <<>>]
RetList(l) == [kind |-> "list", val |-> l]
RetStr(s) == [kind |-> "str", val |-> <<s>>]
RetRaise(e) == [kind |-> "raise", val |-> <<e>>]
NoReturn == [kind |-> "running", val |-> <<>>]

Called(o, a, r) == [op |-> o, args |-> a, ret |-> r]

(***************************************************************************)
(* The tables.                                                             *)
(***************************************************************************)
NounRow(p, s) == [prefix |-> p, suffix |-> s, score |-> 0]
InbetweenyRow(w) == [inbetweeny |-> w, score |-> 0]

(* Mutant: the table has no UNIQUE(prefix, suffix) constraint. *)
NounConflictNever(rows, p, s) == FALSE

(* UNIQUE(prefix, suffix): a row with this pair is there already. *)
NounConflict(rows, p, s) ==
    \E i \in 1..Len(rows) : rows[i].prefix = p /\ rows[i].suffix = s

(* inbetweeny TEXT UNIQUE *)
InbetweenyConflict(rows, w) ==
    \E i \in 1..Len(rows) : rows[i].inbetweeny = w

(* _setup on a table: the seed row goes into an empty table. *)
SetupNouns(rows) ==
    IF Len(rows) = 0 THEN Append(rows, NounRow("frukt", "frukten")) ELSE rows

SetupInbetweenies(rows) ==
    IF Len(rows) = 0 THEN Append(rows, InbetweenyRow("i")) ELSE rows

(***************************************************************************)
(* add_noun, add_inbetweeny                                                *)
(***************************************************************************)
AddNoun(p, s) ==
    /\ \/ /\ NounConflict(nouns, p, s)        \* sqlite3.IntegrityError
          /\ last' = Called("add_noun", <<p, s>>, RetBool(FALSE))
          /\ UNCHANGED <<nouns, nOps>>
       \/ /\ ~NounConflict(nouns, p, s)
          /\ nOps < MaxOps
          /\ nouns' = Append(nouns, NounRow(p, s))
          /\ nOps' = nOps + 1
          /\ last' = Called("add_noun", <<p, s>>, RetBool(TRUE))
    /\ UNCHANGED <<cteMaterialized, inbetweenies, nounDeltas, inbetweenyDeltas>>
    /\ UNCHANGED concVars

AddInbetweeny(w) ==
    /\ \/ /\ InbetweenyConflict(inbetweenies, w)
          /\ last' = Called("add_inbetweeny", <<w>>, RetBool(FALSE))
          /\ UNCHANGED <<inbetweenies, nOps>>
       \/ /\ ~InbetweenyConflict(inbetweenies, w)
          /\ nOps < MaxOps
          /\ inbetweenies' = Append(inbetweenies, InbetweenyRow(w))
          /\ nOps' = nOps + 1
          /\ last' = Called("add_inbetweeny", <<w>>, RetBool(TRUE))
    /\ UNCHANGED <<cteMaterialized, nouns, nounDeltas, inbetweenyDeltas>>
    /\ UNCHANGED concVars

(***************************************************************************)
(* find_noun: SELECT prefix, suffix FROM nouns WHERE ? IN (prefix, suffix) *)
(* The rows are listed in rowid order (SQL leaves the order open).         *)
(***************************************************************************)
(* Mutant: WHERE ? = prefix *)
NounMatchesPrefix(row, word) == word = row.prefix

NounMatches(row, word) == word \in {row.prefix, row.suffix}

FindNounRows(rows, word) ==
    LET hits == SelectSeq(rows, LAMBDA r : NounMatches(r, word))
    IN  [i \in 1..Len(hits) |-> <<hits[i].prefix, hits[i].suffix>>]

FindNoun(word) ==
    /\ last' = Called("find_noun", <<word>>, RetList(FindNounRows(nouns, word)))
    /\ UNCHANGED <<cteMaterialized, nouns, inbetweenies, nOps>>
    /\ UNCHANGED histVars
    /\ UNCHANGED concVars

(***************************************************************************)
(* add_noun_score, add_inbetweeny_score: an UPDATE, then a SELECT of the   *)
(* score, both inside one transaction.                                     *)
(***************************************************************************)
(* cursor.fetchone(): the first row of a result, or None (the empty tuple) *)
FetchOne(result) == IF Len(result) = 0 THEN <<>> ELSE <<result[1]>>

(* Mutant: WHERE prefix = ? OR suffix = ? *)
NounKeyIsEither(row, p, s) == row.prefix = p \/ row.suffix = s

(* WHERE prefix = ? AND suffix = ? *)
NounKeyIs(row, p, s) == row.prefix = p /\ row.suffix = s

(* Mutant: SET score = ? *)
UpdateNounScoreAssign(rows, p, s, delta) ==
    [i \in 1..Len(rows) |->
        IF rows[i].prefix = p /\ rows[i].suffix = s
        THEN [rows[i] EXCEPT !.score = delta]
        ELSE rows[i]]

(* UPDATE nouns SET score = score + ? WHERE prefix = ? AND suffix = ? *)
UpdateNounScore(rows, p, s, delta) ==
    [i \in 1..Len(rows) |->
        IF NounKeyIs(rows[i], p, s)
        THEN [rows[i] EXCEPT !.score = @ + delta]
        ELSE rows[i]]

(* SELECT score FROM nouns WHERE prefix = ? AND suffix = ? *)
SelectNounScore(rows, p, s) ==
    LET hits == SelectSeq(rows, LAMBDA r : NounKeyIs(r, p, s))
    IN  [i \in 1..Len(hits) |-> hits[i].score]

(* UPDATE inbetweenies SET score = score + ? WHERE inbetweeny = ? *)
UpdateInbetweenyScore(rows, w, delta) ==
    [i \in 1..Len(rows) |->
        IF rows[i].inbetweeny = w
        THEN [rows[i] EXCEPT !.score = @ + delta]
        ELSE rows[i]]

(* SELECT score FROM inbetweenies WHERE inbetweeny = ? *)
SelectInbetweenyScore(rows, w) ==
    LET hits == SelectSeq(rows, LAMBDA r : r.inbetweeny = w)
    IN  [i \in 1..Len(hits) |-> hits[i].score]

(* return None if row is None else row[0] *)
ScoreResult(row) == IF row = <<>> THEN RetNone ELSE RetInt(row[1])

AddNounScore(p, s, delta) ==
    LET updated == UpdateNounScore(nouns, p, s, delta)
        row == FetchOne(SelectNounScore(updated, p, s))
    IN  /\ updated # nouns => nOps < MaxOps
        /\ nouns' = updated
        /\ nOps' = IF updated # nouns THEN nOps + 1 ELSE nOps
        /\ last' = Called("add_noun_score", <<p, s, delta>>, ScoreResult(row))
        /\ nounDeltas' =
              IF \E i \in 1..Len(nouns) :
                    nouns[i].prefix = p /\ nouns[i].suffix = s
              THEN [nounDeltas EXCEPT ![<<p, s>>] = @ + delta]
              ELSE nounDeltas
        /\ UNCHANGED <<cteMaterialized, inbetweenies, inbetweenyDeltas>>
        /\ UNCHANGED concVars

AddInbetweenyScore(w, delta) ==
    LET updated == UpdateInbetweenyScore(inbetweenies, w, delta)
        row == FetchOne(SelectInbetweenyScore(updated, w))
    IN  /\ updated # inbetweenies => nOps < MaxOps
        /\ inbetweenies' = updated
        /\ nOps' = IF updated # inbetweenies THEN nOps + 1 ELSE nOps
        /\ last' = Called("add_inbetweeny_score", <<w, delta>>, ScoreResult(row))
        /\ inbetweenyDeltas' =
              IF \E i \in 1..Len(inbetweenies) : inbetweenies[i].inbetweeny = w
              THEN [inbetweenyDeltas EXCEPT ![w] = @ + delta]
              ELSE inbetweenyDeltas
        /\ UNCHANGED <<cteMaterialized, nouns, nounDeltas>>
        /\ UNCHANGED concVars

(***************************************************************************)
(* _random_parts: one query over two CTEs, random_noun (used four times)   *)
(* and random_inbetweeny, then list(c.fetchone()).                         *)
(***************************************************************************)
(* Mutant: WHERE score >= :skip_score *)
EligibleNounsInclusive(rows) == {i \in 1..Len(rows) : rows[i].score >= SKIP_SCORE}

(* WHERE score > :skip_score, as the set of the rowids that pass *)
EligibleNouns(rows) == {i \in 1..Len(rows) : rows[i].score > SKIP_SCORE}

EligibleInbetweenies(rows) == {i \in 1..Len(rows) : rows[i].score > SKIP_SCORE}

(* SELECT rowid ... ORDER BY RANDOM() LIMIT 1: the values the CTE can take *)
RandomOne(ids) == IF ids = {} THEN {{}} ELSE {{i} : i \in ids}

(* SELECT a.prefix, b.suffix, c.inbetweeny, d.prefix, e.suffix FROM nouns a,  *)
(* nouns b, inbetweenies c, nouns d, nouns e WHERE a.rowid IN ... : the rows  *)
(* of the join, given the value each of the five IN operands took.            *)
JoinRows(ns, is, ra, rb, rc, rd, re) ==
    {<<ns[a].prefix, ns[b].suffix, is[c].inbetweeny, ns[d].prefix, ns[e].suffix>> :
        a \in ra, b \in rb, c \in rc, d \in rd, e \in re}

(* The results the query can have.  SQLite from 3.35 on computes a CTE that  *)
(* is used more than once a single time (it materializes it), so the four    *)
(* uses of random_noun see the same rowid; before 3.35 each use is computed  *)
(* on its own.                                                               *)
QueryResults(materialized, ns, is) ==
    LET RN == RandomOne(EligibleNouns(ns))
        RI == RandomOne(EligibleInbetweenies(is))
    IN  IF materialized
        THEN {JoinRows(ns, is, rn, rn, ri, rn, rn) : rn \in RN, ri \in RI}
        ELSE {JoinRows(ns, is, ra, rb, ri, rd, re) :
                 ra \in RN, rb \in RN, ri \in RI, rd \in RN, re \in RN}

(* Mutant: an empty result becomes a list of five empty parts. *)
ListOfFetchOneBlank(result) ==
    IF result = {}
    THEN RetList(<<"", "", "", "", "">>)
    ELSE RetList(CHOOSE r \in result : TRUE)

(* list(c.fetchone()): list(None) raises TypeError *)
ListOfFetchOne(result) ==
    IF result = {}
    THEN RetRaise("TypeError")
    ELSE RetList(CHOOSE row \in result : TRUE)

RandomPartsOutcomes(materialized, ns, is) ==
    {ListOfFetchOne(q) : q \in QueryResults(materialized, ns, is)}

Outcomes == RandomPartsOutcomes(cteMaterialized, nouns, inbetweenies)

ReadOnly ==
    /\ UNCHANGED <<cteMaterialized, nouns, inbetweenies, nOps>>
    /\ UNCHANGED histVars
    /\ UNCHANGED concVars

RandomParts ==
    /\ \E r \in Outcomes : last' = Called("_random_parts", <<>>, r)
    /\ ReadOnly

(***************************************************************************)
(* The composers.  parts[i] of the code is parts[i + 1] here.              *)
(***************************************************************************)
\* "{}{} {} {}{}".format of the five parts
FormatParts(parts) ==
    parts[1] \o parts[2] \o " " \o parts[3] \o " " \o parts[4] \o parts[5]

(* parts[i] = v *)
SetPart(parts, i, v) == [parts EXCEPT ![i + 1] = v]

(* str.upper() on the prefixes in use *)
Upper(w) ==
    CASE w = "frukt" -> "FRUKT"
      [] w = "don" -> "DON"
      [] w = "frukten" -> "FRUKTEN"
      [] OTHER -> w

(* A composer ends in the draw's exception, or hands back f(parts). *)
Composed(r, s) == IF r.kind = "raise" THEN r ELSE RetStr(s)

Snusk ==
    /\ \E x \in {Composed(r, FormatParts(r.val)) : r \in Outcomes} :
          last' = Called("snusk", <<>>, x)
    /\ ReadOnly

(* Mutant: random.choice([0, 1, 2, 3, 4]) *)
DirectedChoicesAll == {0, 1, 2, 3, 4}

(* random.choice([0, 1, 3, 4]) *)
DirectedChoices == {0, 1, 3, 4}

DirectedPart(i, target) == IF i \in {0, 3} THEN target ELSE target \o "ern"

DirectedSnusk(target) ==
    /\ \E x \in {Composed(r, FormatParts(SetPart(r.val, i, DirectedPart(i, target)))) :
                    r \in Outcomes, i \in DirectedChoices} :
          last' = Called("directed_snusk", <<target>>, x)
    /\ ReadOnly

Taste ==
    /\ \E x \in {Composed(r, Upper(r.val[1]) \o "/" \o Upper(r.val[4])) :
                    r \in Outcomes} :
          last' = Called("taste", <<>>, x)
    /\ ReadOnly

Nick ==
    /\ \E x \in {Composed(r, r.val[i + 1]) : r \in Outcomes, i \in {0, 1}} :
          last' = Called("nick", <<>>, x)
    /\ ReadOnly

(* Mutant: both branches put a in front of b. *)
ExamplePartsSymmetric(parts, choice, a, b) ==
    IF choice
    THEN [[parts EXCEPT ![1] = a] EXCEPT ![5] = b]
    ELSE [[parts EXCEPT ![2] = a] EXCEPT ![4] = b]

(* random.choice([False, True]) decides which pair of parts is replaced *)
ExampleParts(parts, choice, a, b) ==
    IF choice
    THEN SetPart(SetPart(parts, 0, a), 4, b)
    ELSE SetPart(SetPart(parts, 1, b), 3, a)

ExampleSnusk(a, b) ==
    /\ \E x \in {Composed(r, FormatParts(ExampleParts(r.val, choice, a, b))) :
                    r \in Outcomes, choice \in BOOLEAN} :
          last' = Called("example_snusk", <<a, b>>, x)
    /\ ReadOnly

ExampleSnuskWithInbetweeny(w) ==
    /\ \E x \in {Composed(r, FormatParts(SetPart(r.val, 2, w))) : r \in Outcomes} :
          last' = Called("example_snusk_with_inbetweeny", <<w>>, x)
    /\ ReadOnly

(***************************************************************************)
(* Concurrent callers of add_noun_score and add_inbetweeny_score.  Each    *)
(* call runs inside `with self._db:`.  Its UPDATE opens the transaction    *)
(* and takes the database's write lock, which the connection keeps until   *)
(* the commit at the end of the with block; a connection that finds the    *)
(* lock taken waits for it, and gives up with sqlite3.OperationalError     *)
(* when its timeout runs out.                                              *)
(***************************************************************************)
(* Mutant: the UPDATE does not wait for the write lock. *)
WriteLockIgnored(w) == TRUE

WriteLockFree(w) == w = 0

UpdateNoun(c, p, s, delta) ==
    LET updated == UpdateNounScore(nouns, p, s, delta)
    IN  /\ pc[c] = "idle"
        /\ WriteLockFree(writer)
        /\ updated # nouns => nOps < MaxOps
        /\ writer' = c
        /\ nouns' = updated
        /\ nOps' = IF updated # nouns THEN nOps + 1 ELSE nOps
        /\ pc' = [pc EXCEPT ![c] = "updated"]
        /\ call' = [call EXCEPT ![c] = <<"add_noun_score", p, s, delta>>]
        /\ returned' = [returned EXCEPT ![c] = NoReturn]
        /\ afterUpdate' = [afterUpdate EXCEPT ![c] =
                              FetchOne(SelectNounScore(updated, p, s))]
        /\ nounDeltas' =
              IF \E i \in 1..Len(nouns) :
                    nouns[i].prefix = p /\ nouns[i].suffix = s
              THEN [nounDeltas EXCEPT ![<<p, s>>] = @ + delta]
              ELSE nounDeltas
        /\ UNCHANGED <<cteMaterialized, inbetweenies, last, inbetweenyDeltas, fetched>>

UpdateInbetweeny(c, w, delta) ==
    LET updated == UpdateInbetweenyScore(inbetweenies, w, delta)
    IN  /\ pc[c] = "idle"
        /\ WriteLockFree(writer)
        /\ updated # inbetweenies => nOps < MaxOps
        /\ writer' = c
        /\ inbetweenies' = updated
        /\ nOps' = IF updated # inbetweenies THEN nOps + 1 ELSE nOps
        /\ pc' = [pc EXCEPT ![c] = "updated"]
        /\ call' = [call EXCEPT ![c] = <<"add_inbetweeny_score", w, delta>>]
        /\ returned' = [returned EXCEPT ![c] = NoReturn]
        /\ afterUpdate' = [afterUpdate EXCEPT ![c] =
                              FetchOne(SelectInbetweenyScore(updated, w))]
        /\ inbetweenyDeltas' =
              IF \E i \in 1..Len(inbetweenies) : inbetweenies[i].inbetweeny = w
              THEN [inbetweenyDeltas EXCEPT ![w] = @ + delta]
              ELSE inbetweenyDeltas
        /\ UNCHANGED <<cteMaterialized, nouns, last, nounDeltas, fetched>>

(* the SELECT and c.fetchone() of the call in progress *)
SelectScore(c) ==
    /\ pc[c] = "updated"
    /\ fetched' = [fetched EXCEPT ![c] =
                  IF call[c][1] = "add_noun_score"
                  THEN FetchOne(SelectNounScore(nouns, call[c][2], call[c][3]))
                  ELSE FetchOne(SelectInbetweenyScore(inbetweenies, call[c][2]))]
    /\ pc' = [pc EXCEPT ![c] = "selected"]
    /\ UNCHANGED <<cteMaterialized, nouns, inbetweenies, last, nOps, writer, call,
                   returned, afterUpdate>>
    /\ UNCHANGED histVars

(* the end of the with block (commit) and the return *)
CommitAndReturn(c) ==
    /\ pc[c] = "selected"
    /\ writer' = 0
    /\ returned' = [returned EXCEPT ![c] = ScoreResult(fetched[c])]
    /\ pc' = [pc EXCEPT ![c] = "idle"]
    /\ UNCHANGED <<cteMaterialized, nouns, inbetweenies, last, nOps, call, fetched,
                   afterUpdate>>
    /\ UNCHANGED histVars

(* the UPDATE of a call finds the lock taken until the timeout runs out *)
BusyTimeout(c, method) ==
    /\ pc[c] = "idle"
    /\ ~WriteLockFree(writer)
    /\ call' = [call EXCEPT ![c] = <<method>>]
    /\ returned' = [returned EXCEPT ![c] = RetRaise("OperationalError")]
    /\ UNCHANGED <<cteMaterialized, nouns, inbetweenies, last, nOps, writer, pc, fetched,
                   afterUpdate>>
    /\ UNCHANGED histVars

(***************************************************************************)
(* The state after SnuskDb(db_file_path) on a new file.                    *)
(***************************************************************************)
Init ==
    /\ cteMaterialized \in BOOLEAN
    /\ nouns = SetupNouns(<<>>)
    /\ inbetweenies = SetupInbetweenies(<<>>)
    /\ last = Called("__init__", <<>>, RetNone)
    /\ nOps = 0
    /\ nounDeltas = [k \in NounInputs |-> 0]
    /\ inbetweenyDeltas = [w \in InbetweenyWords |-> 0]
    /\ writer = 0
    /\ pc = [c \in Callers |-> "idle"]
    /\ call = [c \in Callers |-> <<>>]
    /\ fetched = [c \in Callers |-> <<>>]
    /\ returned = [c \in Callers |-> NoReturn]
    /\ afterUpdate = [c \in Callers |-> <<>>]

Next ==
    \/ \E k \in NounInputs : AddNoun(k[1], k[2])
    \/ \E w \in InbetweenyWords : AddInbetweeny(w)
    \/ \E word \in FindWords : FindNoun(word)
    \/ \E k \in NounInputs, delta \in Deltas : AddNounScore(k[1], k[2], delta)
    \/ \E w \in InbetweenyWords, delta \in Deltas : AddInbetweenyScore(w, delta)
    \/ RandomParts
    \/ Snusk
    \/ \E target \in Targets : DirectedSnusk(target)
    \/ Taste
    \/ Nick
    \/ \E k \in ExampleArgs : ExampleSnusk(k[1], k[2])
    \/ \E w \in ExampleInbetweenies : ExampleSnuskWithInbetweeny(w)

Spec == Init /\ [][Next]_vars

(* Callers that adjust scores at the same time. *)
NextConc ==
    \/ \E c \in Callers, k \in ConcurrentNouns, delta \in Deltas :
          UpdateNoun(c, k[1], k[2], delta)
    \/ \E c \in Callers, w \in ConcurrentInbetweenies, delta \in Deltas :
          UpdateInbetweeny(c, w, delta)
    \/ \E c \in Callers : SelectScore(c)
    \/ \E c \in Callers : CommitAndReturn(c)
    \/ \E c \in Callers, method \in {"add_noun_score", "add_inbetweeny_score"} :
          BusyTimeout(c, method)

SpecConc == Init /\ [][NextConc]_vars

(***************************************************************************)
(* The properties.                                                         *)
(***************************************************************************)
Seq2Set(l) == {l[i] : i \in 1..Len(l)}

HasNoun(rows, k) ==
    \E i \in 1..Len(rows) : <<rows[i].prefix, rows[i].suffix>> = k

HasInbetweeny(rows, w) == \E i \in 1..Len(rows) : rows[i].inbetweeny = w

DrawOps == {"_random_parts", "snusk", "directed_snusk", "taste", "nick",
            "example_snusk", "example_snusk_with_inbetweeny"}

(* The fragments a draw may use: those with a score above -3. *)
DrawableNouns == {nouns[i] : i \in {j \in 1..Len(nouns) : nouns[j].score > -3}}

DrawableInbetweenies ==
    {inbetweenies[i] : i \in {j \in 1..Len(inbetweenies) : inbetweenies[j].score > -3}}

(* Every tuple [A, B, C, D, E] of four drawable nouns and a drawable connector. *)
StoreTuples ==
    {<<a.prefix, b.suffix, c.inbetweeny, d.prefix, e.suffix>> :
        a \in DrawableNouns, b \in DrawableNouns, c \in DrawableInbetweenies,
        d \in DrawableNouns, e \in DrawableNouns}

(* The template "{A}{B} {C} {D}{E}". *)
Template(t) == t[1] \o t[2] \o " " \o t[3] \o " " \o t[4] \o t[5]

NoDuplicateFragments ==
    /\ \A i, j \in 1..Len(nouns) :
          i # j => <<nouns[i].prefix, nouns[i].suffix>> # <<nouns[j].prefix, nouns[j].suffix>>
    /\ \A i, j \in 1..Len(inbetweenies) :
          i # j => inbetweenies[i].inbetweeny # inbetweenies[j].inbetweeny

(* A step of add_noun or add_inbetweeny answers true exactly when the key was *)
(* not stored before, leaves the key stored, and answers false when it is     *)
(* repeated; and a stored key stays stored.                                   *)
AddContract ==
    /\ last'.op = "add_noun" =>
          /\ last'.ret = RetBool(~HasNoun(nouns, last'.args))
          /\ HasNoun(nouns', last'.args)
          /\ (last.op = "add_noun" /\ last.args = last'.args)
                => last'.ret = RetBool(FALSE)
    /\ last'.op = "add_inbetweeny" =>
          /\ last'.ret = RetBool(~HasInbetweeny(inbetweenies, last'.args[1]))
          /\ HasInbetweeny(inbetweenies', last'.args[1])
          /\ (last.op = "add_inbetweeny" /\ last.args = last'.args)
                => last'.ret = RetBool(FALSE)
    /\ \A k \in NounInputs : HasNoun(nouns, k) => HasNoun(nouns', k)
    /\ \A w \in InbetweenyWords :
          HasInbetweeny(inbetweenies, w) => HasInbetweeny(inbetweenies', w)

(* A call made right after the construction is the first call for its key. *)
FirstCallAnswersTrue ==
    (last.op = "__init__" /\ last'.op \in {"add_noun", "add_inbetweeny"})
        => last'.ret = RetBool(TRUE)

(* C1, as amended: add_noun (add_inbetweeny) answers true exactly when the   *)
(* pair (word) was not stored before the call, so a repeated call answers    *)
(* false and the first call answers true unless the pair is stored already,  *)
(* as the seed rows are; no two nouns share (prefix, suffix) and no two      *)
(* connectors share a word in any reachable state.                           *)
C1_InsertIfAbsent == []NoDuplicateFragments /\ [][AddContract]_vars

(* C1 witness: a second add_noun("don", "donet") was answered false. *)
C1_SecondAddRejected ==
    /\ last = Called("add_noun", <<"don", "donet">>, RetBool(FALSE))
    /\ Len(nouns) = 2

(* C1 as claimed: in addition, the first add call of every key answers true. *)
C1_FirstAddAlwaysTrue ==
    []NoDuplicateFragments /\ [][AddContract /\ FirstCallAnswersTrue]_vars

(* C2: the score of every stored fragment is the sum of the deltas sent to   *)
(* it (0 when none was), whatever other calls were made, and a score call on *)
(* a stored fragment hands back that sum as it is right after its own delta. *)
C2_ScoreIsSumOfDeltas ==
    /\ \A i \in 1..Len(nouns) :
          nouns[i].score = nounDeltas[<<nouns[i].prefix, nouns[i].suffix>>]
    /\ \A i \in 1..Len(inbetweenies) :
          inbetweenies[i].score = inbetweenyDeltas[inbetweenies[i].inbetweeny]
    /\ (last.op = "add_noun_score" /\ HasNoun(nouns, <<last.args[1], last.args[2]>>))
          => last.ret = RetInt(nounDeltas[<<last.args[1], last.args[2]>>])
    /\ (last.op = "add_inbetweeny_score" /\ HasInbetweeny(inbetweenies, last.args[1]))
          => last.ret = RetInt(inbetweenyDeltas[last.args[1]])

(* C2 witness: the seed noun got -3 and then +1, and the call answered -2. *)
C2_MixedDeltas ==
    last = Called("add_noun_score", <<"frukt", "frukten", 1>>, RetInt(-2))

(* A score call on a key that is not stored. *)
UnknownFragmentStep ==
    /\ (last'.op = "add_noun_score"
            /\ ~HasNoun(nouns, <<last'.args[1], last'.args[2]>>))
          => (last'.ret = RetNone /\ nouns' = nouns /\ inbetweenies' = inbetweenies)
    /\ (last'.op = "add_inbetweeny_score"
            /\ ~HasInbetweeny(inbetweenies, last'.args[1]))
          => (last'.ret = RetNone /\ nouns' = nouns /\ inbetweenies' = inbetweenies)

(* C3: a score call for a pair (word) that is not stored hands back None and *)
(* changes neither table, also when the prefix and the suffix are each       *)
(* stored in other rows.                                                     *)
C3_UnknownFragmentAbsent == [][UnknownFragmentStep]_vars

(* C3 witness: ("don", "frukten") is not stored, "don" and "frukten" are. *)
C3_AbsentForMixedPair ==
    /\ last.op = "add_noun_score"
    /\ <<last.args[1], last.args[2]>> = <<"don", "frukten">>
    /\ last.ret = RetNone
    /\ HasNoun(nouns, <<"don", "donet">>)
    /\ HasNoun(nouns, <<"frukt", "frukten">>)

(* C4: a draw that succeeds is made of nouns and a connector with a score    *)
(* above -3; every such noun can fill all four noun slots of a draw, with    *)
(* every such connector.                                                     *)
C4_DrawsOnlyEligible ==
    /\ (last.op = "_random_parts" /\ last.ret.kind = "list")
          => last.ret.val \in StoreTuples
    /\ \A n \in DrawableNouns, c \in DrawableInbetweenies :
          RetList(<<n.prefix, n.suffix, c.inbetweeny, n.prefix, n.suffix>>) \in Outcomes

(* C4 witness: a draw succeeded while a stored noun had a score of -3 or less. *)
C4_SkippedNounNotDrawn ==
    /\ last.op = "_random_parts"
    /\ last.ret.kind = "list"
    /\ \E i \in 1..Len(nouns) : nouns[i].score <= -3

(* A draw or a composer called with nothing to draw from. *)
NoEligibleStep ==
    (last'.op \in DrawOps /\ (DrawableNouns = {} \/ DrawableInbetweenies = {}))
        => (last'.ret.kind = "raise" /\ nouns' = nouns /\ inbetweenies' = inbetweenies)

(* C5: with no drawable noun or no drawable connector, the draw and every    *)
(* composer end in an exception and leave both tables as they were.          *)
C5_NoEligibleRaises == [][NoEligibleStep]_vars

(* C5 witness: example_snusk raised with a drawable noun and no drawable connector. *)
C5_ComposerRaised ==
    /\ last.op = "example_snusk"
    /\ last.ret.kind = "raise"
    /\ DrawableNouns # {}
    /\ DrawableInbetweenies = {}

(* C6 as claimed: every tuple of four drawable nouns and a drawable connector *)
(* is a possible result of the draw.                                          *)
C6_FullProduct == \A t \in StoreTuples : RetList(t) \in Outcomes

(* C7: directed_snusk hands back the template of a draw with exactly one of  *)
(* the slots 0, 1, 3, 4 overwritten: by target in slot 0 or 3, by target +   *)
(* "ern" in slot 1 or 4.                                                     *)
C7_DirectedOneSlot ==
    (last.op = "directed_snusk" /\ last.ret.kind = "str") =>
        \E t \in StoreTuples, i \in {0, 1, 3, 4} :
            last.ret.val[1] =
                Template([t EXCEPT ![i + 1] =
                             IF i \in {0, 3} THEN last.args[1] ELSE last.args[1] \o "ern"])

(* C7 witness: "raekern" took slot 1 of a draw of the seed rows. *)
C7_RaekernInSlotOne ==
    last = Called("directed_snusk", <<"raek">>, RetStr("fruktraekern i fruktfrukten"))

(* ("don", "donet") and "i" are the only drawable rows. *)
OnlyDonDonet ==
    /\ {<<n.prefix, n.suffix>> : n \in DrawableNouns} = {<<"don", "donet">>}
    /\ {c.inbetweeny : c \in DrawableInbetweenies} = {"i"}

(* C8: example_snusk(a, b) hands back the template of [a, B, C, D, b] or of  *)
(* [A, b, C, a, E] for a draw [A, B, C, D, E]; when ("don", "donet") and "i" *)
(* are the only drawable rows, snusk() and example_snusk("don", "donet")     *)
(* hand back "dondonet i dondonet".                                          *)
C8_ExampleTwoBranches ==
    /\ (last.op = "example_snusk" /\ last.ret.kind = "str") =>
          \E t \in StoreTuples :
              last.ret.val[1] \in
                  {Template(<<last.args[1], t[2], t[3], t[4], last.args[2]>>),
                   Template(<<t[1], last.args[2], t[3], last.args[1], t[5]>>)}
    /\ (OnlyDonDonet /\ last.op = "snusk")
          => last.ret = RetStr("dondonet i dondonet")
    /\ (OnlyDonDonet /\ last.op = "example_snusk" /\ last.args = <<"don", "donet">>)
          => last.ret = RetStr("dondonet i dondonet")

(* C8 witness: example_snusk("don", "donet") with only ("don", "donet") and "i" drawable. *)
C8_DonDonetOnly ==
    /\ OnlyDonDonet
    /\ last = Called("example_snusk", <<"don", "donet">>, RetStr("dondonet i dondonet"))

(* C9 as claimed: find_noun never has more than two matches. *)
C9_AtMostTwoMatches ==
    /\ last.op = "find_noun" => Len(last.ret.val) <= 2
    /\ \A w \in FindWords :
          Cardinality({i \in 1..Len(nouns) : w \in {nouns[i].prefix, nouns[i].suffix}}) <= 2

(* C9, as amended: find_noun(word) lists every stored pair whose prefix or   *)
(* suffix is word, each once and no other pair; the number of matches is     *)
(* bounded by the number of stored nouns, not by two.                        *)
C9_FindNounAllMatches ==
    last.op = "find_noun" =>
        /\ \A i, j \in 1..Len(last.ret.val) : i # j => last.ret.val[i] # last.ret.val[j]
        /\ Seq2Set(last.ret.val) =
              {<<nouns[i].prefix, nouns[i].suffix>> :
                  i \in {j \in 1..Len(nouns) :
                            nouns[j].prefix = last.args[1] \/ nouns[j].suffix = last.args[1]}}
        /\ Len(last.ret.val) <= Len(nouns)

(* C9 witness: find_noun found three matches. *)
C9_ThreeMatches == last.op = "find_noun" /\ Len(last.ret.val) = 3

(* C10: with concurrent callers, every score call that handed back a value   *)
(* handed back the score as it was right after its own UPDATE (None for a    *)
(* fragment that is not stored), and once no call is in progress every score *)
(* is the sum of the deltas of the calls that updated it.                    *)
C10_AtomicAdjust ==
    /\ \A c \in Callers :
          returned[c].kind \in {"int", "none"} =>
              returned[c] = IF afterUpdate[c] = <<>>
                            THEN RetNone
                            ELSE RetInt(afterUpdate[c][1])
    /\ (\A c \in Callers : pc[c] = "idle") =>
          /\ \A i \in 1..Len(nouns) :
                nouns[i].score = nounDeltas[<<nouns[i].prefix, nouns[i].suffix>>]
          /\ \A i \in 1..Len(inbetweenies) :
                inbetweenies[i].score = inbetweenyDeltas[inbetweenies[i].inbetweeny]

(* C10 witness: two callers adjusted the seed noun, by -3 and by 1, and both returned. *)
C10_BothReturned ==
    /\ call[1] = <<"add_noun_score", "frukt", "frukten", -3>>
    /\ call[2] = <<"add_noun_score", "frukt", "frukten", 1>>
    /\ returned[1] = RetInt(-3)
    /\ returned[2] = RetInt(-2)
    /\ \A c \in Callers : pc[c] = "idle"

====
